---- MODULE Spec2Model ----
(***************************************************************************)
(* Model of the L2TPv3 control-plane engine of osmo-el2tpd                 *)
(* (src/siu/l2tp/l2tpd.c, src/src/l2tpd.h).                                *)
(*                                                                         *)
(* A message buffer (struct msgb) is a record                              *)
(*   mem  : the bytes from the head of the allocation up to msg->tail,     *)
(*   data : the 0-based position of msg->data in mem,                      *)
(*   len  : msg->len (uint16),                                             *)
(*   l2h  : the 0-based position of msg->l2h, or NULL,                     *)
(*   dst  : msg->dst, a connection object or NULL.                         *)
(* Every C function is an operator computed the way the code computes it;  *)
(* the actions apply the functions to inputs drawn from small sets.        *)
(***************************************************************************)
EXTENDS Integers, Sequences, FiniteSets, TLC

VARIABLES host, buf, put, parsed, conn, connections, tx, dg, rx, ntx, crashed

vars == <<host, buf, put, parsed, conn, connections, tx, dg, rx, ntx, crashed>>

(***************************************************************************)
(* Bounds of the model.                                                    *)
(***************************************************************************)
\* how many AVPs the codec harness appends to one buffer
MaxPuts == 2
\* how many control messages are transmitted in one behaviour
MaxTx == 3
\* how many connection objects exist
NumConns == 2

(***************************************************************************)
(* Integer helpers: fixed-width arithmetic and bit operations.             *)
(***************************************************************************)
NULL == -1

U16(x) == x % 65536

\* c > (uint32_t) d, for 0 <= c < 2^31 and -2^31 <= d < 2^31: a negative d
\* converts to a value of at least 2^31
GtU32(c, d) == d >= 0 /\ c > d

RECURSIVE BitAnd(_, _)
BitAnd(a, b) ==
  IF a = 0 \/ b = 0 THEN 0
  ELSE (IF a % 2 = 1 /\ b % 2 = 1 THEN 1 ELSE 0) + 2 * BitAnd(a \div 2, b \div 2)

RECURSIVE BitOr(_, _)
BitOr(a, b) ==
  IF a = 0 THEN b
  ELSE IF b = 0 THEN a
  ELSE (IF a % 2 = 1 \/ b % 2 = 1 THEN 1 ELSE 0) + 2 * BitOr(a \div 2, b \div 2)

\* a C truth value
CBool(p) == IF p THEN 1 ELSE 0

Zeros(n) == [i \in 1..n |-> 0]

\* big-endian encodings (htons / htonl followed by a byte-wise store)
BE16(v) == <<(v \div 256) % 256, v % 256>>

\* (v < 2^31)
BE32(v) == <<(v \div 16777216) % 256, (v \div 65536) % 256, (v \div 256) % 256, v % 256>>

\* the byte at position pos of the allocation; a position at or beyond
\* msg->tail (or before the head) is outside the message and holds whatever
\* the memory holds there: stale
Rd(m, pos, stale) == IF pos >= 0 /\ pos < Len(m.mem) THEN m.mem[pos + 1] ELSE stale

\* ntohs / osmo_load16be of the two bytes at pos
Ld16(m, pos, stale) == Rd(m, pos, stale) * 256 + Rd(m, pos + 1, stale)

\* ntohl / osmo_load32be of the four bytes at pos, as <<high half, low half>>
Ld32(m, pos, stale) == <<Ld16(m, pos, stale), Ld16(m, pos + 2, stale)>>

Zero32 == <<0, 0>>

\* the value of a uint16_t object read WITHOUT ntohs on this host
Raw16(m, pos, stale, order) ==
  IF order = "BE" THEN Ld16(m, pos, stale)
  ELSE Rd(m, pos + 1, stale) * 256 + Rd(m, pos, stale)

\* mem with the bytes bs stored at position pos; a store outside the message
\* (before the head or beyond msg->tail) does not show in the message
Store(mem, pos, bs) ==
  IF pos >= 0 /\ pos + Len(bs) <= Len(mem)
    THEN SubSeq(mem, 1, pos) \o bs \o SubSeq(mem, pos + Len(bs) + 1, Len(mem))
  ELSE [i \in 1..Len(mem) |->
          IF i - 1 >= pos /\ i - 1 < pos + Len(bs) THEN bs[i - pos] ELSE mem[i]]

(***************************************************************************)
(* libosmocore msgb primitives, as used by the code.                       *)
(***************************************************************************)
HEADROOM == 100

\* l2tp_msgb_alloc: msgb_alloc_headroom(1500, 100): zeroed, data = tail = head + 100
l2tp_msgb_alloc == [mem |-> Zeros(HEADROOM), data |-> HEADROOM, len |-> 0,
                    l2h |-> NULL, dst |-> NULL]

msgb_length(m) == m.len

\* the size msgb_alloc_headroom is called with: headroom and data together
MSGB_SIZE == 1500

\* msgb_tailroom: the bytes left between the tail and the end of the buffer
msgb_tailroom(m) == MSGB_SIZE - Len(m.mem)

\* msgb_put / msgb_put_u16 + memcpy: append bytes at the tail
msgb_put(m, bs) == [m EXCEPT !.mem = m.mem \o bs, !.len = U16(m.len + Len(bs))]

\* msgb_push: move data towards the head
msgb_push(m, n) == [m EXCEPT !.data = m.data - n, !.len = U16(m.len + n)]

\* msgb_pull: move data towards the tail
msgb_pull(m, n) == [m EXCEPT !.data = m.data + n, !.len = U16(m.len - n)]

\* msgb_l2tph
msgb_l2tph(m) == m.l2h

\* msgb_l2tplen: msgb_l2len = tail - l2h
msgb_l2tplen(m) == Len(m.mem) - m.l2h

(***************************************************************************)
(* AVP codec.                                                              *)
(***************************************************************************)
AVP_HDR_LEN == 6

NoAp == [vendor_id |-> 0, type |-> 0, data_len |-> 0, data |-> NULL, m |-> 0, h |-> 0]

\* msgb_avp_parse(ap, msg, offset).  The cast binds tighter than the addition:
\* (struct l2tp_avp_hdr *) msg->data + offset advances by offset HEADERS.
\* Result: rc, the parsed AVP (ap.data is a position in mem), and the
\* positions of the header bytes the function read.
AvpHdrPos(m, offset) == m.data + AVP_HDR_LEN * offset

msgb_avp_parse(m, offset, stale, order) ==
  LET msgb_left == msgb_length(m) - offset   \* converted to uint32_t
      ah        == AvpHdrPos(m, offset)
      avp_len   == Ld16(m, ah, stale) % 1024
      rawflags  == Raw16(m, ah, stale, order)
  IN  IF GtU32(AVP_HDR_LEN, msgb_left)
        THEN [rc |-> -1, ap |-> NoAp, reads |-> {}]
      ELSE IF avp_len < 6
        THEN [rc |-> -1, ap |-> NoAp, reads |-> {ah, ah + 1}]
      ELSE IF GtU32(AVP_HDR_LEN + avp_len, msgb_left)
        THEN [rc |-> -1, ap |-> NoAp, reads |-> {ah, ah + 1}]
      ELSE [rc |-> offset + avp_len,
            ap |-> [vendor_id |-> Ld16(m, ah + 2, stale),
                    type      |-> Ld16(m, ah + 4, stale),
                    data_len  |-> avp_len - AVP_HDR_LEN,
                    data      |-> ah + AVP_HDR_LEN,
                    m         |-> CBool(BitAnd(rawflags, 32768) # 0),
                    h         |-> CBool(BitAnd(rawflags, 16384) # 0)],
            reads |-> ah .. (ah + AVP_HDR_LEN - 1)]

\* the bytes ap->data[0 .. data_len-1] as a caller reads them
ApValue(m, ap, stale) == [i \in 1..ap.data_len |-> Rd(m, ap.data + i - 1, stale)]

\* msgb_avp_put without the check of data_len
msgb_avp_put_unchecked(m, vendor_id, type, data, m_flag) ==
  [rc  |-> 6 + Len(data), abort |-> FALSE,
   msg |-> msgb_put(m, BE16(BitOr(BitAnd(Len(data) + 6, 1023),
                                  IF m_flag THEN 32768 ELSE 0))
                       \o BE16(vendor_id) \o BE16(type) \o data)]

\* msgb_avp_put(msg, vendor_id, type, data, data_len, m_flag).  msgb_put and
\* msgb_put_u16 abort the process when the tailroom is smaller than what they
\* are to append: abort says so, and the call then returns nothing.
msgb_avp_put(m, vendor_id, type, data, m_flag) ==
  IF Len(data) > 1023 - 6
    THEN [rc |-> -1, msg |-> m, abort |-> FALSE]
  ELSE IF msgb_tailroom(m) < 6 + Len(data)
    THEN [rc |-> 0, msg |-> m, abort |-> TRUE]
  ELSE [rc  |-> 6 + Len(data), abort |-> FALSE,
        msg |-> msgb_put(m,
                  BE16(BitOr(BitAnd(Len(data) + 6, 1023), IF m_flag THEN 32768 ELSE 0))
                  \o BE16(vendor_id) \o BE16(type) \o data)]

(***************************************************************************)
(* Protocol constants of l2tp_protocol.h (header fields per the wire       *)
(* format, IETF numbers per RFC 3931, Ericsson numbers distinct values).   *)
(***************************************************************************)
T_BIT == 32768
L_BIT == 16384
S_BIT == 2048
VER_MASK == 15
Z_BITS == 14320
\* sizeof(struct l2tp_control_hdr)
CTRL_HDR_LEN == 12

VENDOR_IETF == 0
VENDOR_ERICSSON == 193

AVP_IETF_CTRL_MSG == 0
AVP_IETF_HOST_NAME == 7
AVP_IETF_MSG_DIGEST == 59
AVP_IETF_ROUTER_ID == 60
AVP_IETF_AS_CTRL_CON_ID == 61
AVP_IETF_PW_CAP_LIST == 62
AVP_IETF_LOC_SESS_ID == 63
AVP_IETF_REM_SESS_ID == 64
AVP_IETF_L2_SPEC_SUBL == 69
AVP_IETF_DATA_SEQUENCING == 70
AVP_IETF_CIRC_STATUS == 71

AVP_ERIC_CTRL_MSG == 1
AVP_ERIC_PROTO_VER == 2
AVP_ERIC_TRANSP_CFG == 3
AVP_ERIC_TEI_TO_SC_MAP == 4

IETF_CTRLMSG_SCCRQ == 1
IETF_CTRLMSG_SCCRP == 2
IETF_CTRLMSG_SCCCN == 3
IETF_CTRLMSG_STOPCCN == 4
IETF_CTRLMSG_HELLO == 6
IETF_CTRLMSG_ICRQ == 10
IETF_CTRLMSG_ICRP == 11
IETF_CTRLMSG_ICCN == 12
IETF_CTRLMSG_ACK == 20

ERIC_CTRLMSG_TCRQ == 101
ERIC_CTRLMSG_TCRP == 102
ERIC_CTRLMSG_ALTCRQ == 103
ERIC_CTRLMSG_ALTCRP == 104

(***************************************************************************)
(* Typed AVP writers.                                                      *)
(***************************************************************************)
msgb_avp_put_u8(m, vendor, avp_type, val, m_flag) ==
  msgb_avp_put(m, vendor, avp_type, <<val % 256>>, m_flag)

msgb_avp_put_u16(m, vendor, avp_type, val, m_flag) ==
  msgb_avp_put(m, vendor, avp_type, BE16(val), m_flag)

msgb_avp_put_u32(m, vendor, avp_type, val, m_flag) ==
  msgb_avp_put(m, vendor, avp_type, BE32(val), m_flag)

\* the AVP type is AVP_IETF_CTRL_MSG whatever the vendor
msgb_avp_put_msgt(m, vendor, msg_type) ==
  msgb_avp_put_u16(m, vendor, AVP_IETF_CTRL_MSG, msg_type, TRUE)

\* a digest placeholder of 16 bytes
msgb_avp_put_digest16(m) ==
  msgb_avp_put(m, VENDOR_IETF, AVP_IETF_MSG_DIGEST, Zeros(16), TRUE)

msgb_avp_put_digest(m) ==
  msgb_avp_put(m, VENDOR_IETF, AVP_IETF_MSG_DIGEST, Zeros(17), TRUE)

(***************************************************************************)
(* Digest.                                                                 *)
(***************************************************************************)
digest_key == <<123, 96, 133, 251, 244, 89, 51, 103, 10, 188, 176, 122, 39, 252, 234, 94>>

\* the sum of (s[i] + 1) * (i * i + 3 * i + 7) for i in lo..hi, modulo 65521
RECURSIVE WSum(_, _, _)
WSum(s, lo, hi) ==
  IF lo > hi THEN 0
  ELSE IF lo = hi THEN ((s[lo] + 1) * ((lo * lo + 3 * lo + 7) % 65521)) % 65521
  ELSE (WSum(s, lo, (lo + hi) \div 2) + WSum(s, (lo + hi) \div 2 + 1, hi)) % 65521

Mix(acc, s) == (acc * 31 + WSum(s, 1, Len(s)) + Len(s)) % 65521

\* HMAC(EVP_md5(), key, data): a keyed 16-byte hash of data (an abstraction of
\* HMAC-MD5 by a keyed position-weighted checksum)
HMAC(key, data) ==
  LET a == Mix(Mix(17, key), data)
  IN  [j \in 1..16 |-> ((a \div j) + 37 * j) % 256]

\* the n bytes of the allocation from position pos (bytes outside are stale)
Bytes(m, pos, n, stale) == [i \in 1..n |-> Rd(m, pos + i - 1, stale)]

\* the condition of line 151-153 as C parses it:
\* ntohs(ah->m_h_length) & (0x3FF != 17)
DigestAvpMissing(m, ah, stale) ==
  \/ Ld16(m, ah + 4, stale) # AVP_IETF_MSG_DIGEST
  \/ Ld16(m, ah + 2, stale) # VENDOR_IETF
  \/ BitAnd(Ld16(m, ah, stale), CBool(1023 # 17)) # 0

\* the AVP header digest_avp_update inspects: the bytes right after the
\* control header
DigestAvpPos(m) == msgb_l2tph(m) + CTRL_HDR_LEN

\* digest_avp_update(msg): rc, the message afterwards, and whether the call
\* dereferenced a null msg->l2h
digest_avp_update(m, stale) ==
  LET l2h == msgb_l2tph(m)
      ah  == DigestAvpPos(m)
      len == Ld16(m, l2h + 2, stale)
  IN  IF l2h = NULL
        THEN [rc |-> -1, msg |-> m, crash |-> TRUE]
      ELSE IF DigestAvpMissing(m, ah, stale)
        THEN [rc |-> -1, msg |-> m, crash |-> FALSE]
      ELSE IF len > msgb_l2tplen(m)
        THEN [rc |-> -1, msg |-> m, crash |-> FALSE]
      ELSE [rc |-> 0,
            msg |-> [m EXCEPT !.mem = Store(m.mem, ah + AVP_HDR_LEN,
                                           HMAC(digest_key, Bytes(m, l2h, len, stale)))],
            crash |-> FALSE]

(***************************************************************************)
(* Transmission.                                                           *)
(***************************************************************************)
\* the increment on a counter wider than 16 bits
NextSeqNoWrap(n) == n + 1

\* next_tx_seq_nr++ on a uint16_t
NextSeq(n) == U16(n + 1)

\* the version/flags word of line 182: T_BIT|L_BIT|S_BIT|msgb_l2tplen(msg),
\* truncated to 16 bits by htons; with msg->l2h a null pointer the length is
\* the tail address, of which addr is the low 16 bits
TxVerWord(m, addr) ==
  U16(BitOr(BitOr(BitOr(T_BIT, L_BIT), S_BIT),
            IF msgb_l2tph(m) = NULL THEN addr ELSE U16(msgb_l2tplen(m))))

\* l2tp_msgb_tx(msg) on the connection objects c: the message and the
\* connection objects afterwards, the digest result, and whether the call
\* dereferenced a null pointer (msg->dst at line 183, msg->l2h in
\* digest_avp_update).  The length field of the header is never written.
l2tp_msgb_tx(m, c, addr, stale) ==
  LET m1  == msgb_push(m, CTRL_HDR_LEN)
      hp  == m1.data
      m2  == [m1 EXCEPT !.mem = Store(m1.mem, hp, BE16(TxVerWord(m1, addr)))]
      l2c == m.dst
  IN  IF l2c = NULL
        THEN [msg |-> m2, conn |-> c, hdr |-> hp, digest_rc |-> -2, crash |-> TRUE]
      ELSE
        LET m3 == [m2 EXCEPT !.mem =
                     Store(Store(Store(m2.mem, hp + 4, BE32(c[l2c].remote_ccid)),
                                 hp + 8, BE16(c[l2c].next_tx_seq_nr)),
                           hp + 10, BE16(c[l2c].next_rx_seq_nr))]
            c2 == [c EXCEPT ![l2c].next_tx_seq_nr = NextSeq(c[l2c].next_tx_seq_nr)]
            d  == digest_avp_update(m3, stale)
        IN  [msg |-> d.msg, conn |-> c2, hdr |-> hp, digest_rc |-> d.rc,
             crash |-> d.crash]

\* the message builders, up to the call of l2tp_msgb_tx
BuildSccRp(ccid) ==
  LET m1 == msgb_avp_put_msgt(l2tp_msgb_alloc, VENDOR_IETF, IETF_CTRLMSG_SCCRP).msg
      m2 == msgb_avp_put_digest(m1).msg
      m3 == msgb_avp_put_u32(m2, VENDOR_IETF, AVP_IETF_AS_CTRL_CON_ID, ccid, TRUE).msg
      m4 == msgb_avp_put(m3, VENDOR_ERICSSON, AVP_ERIC_PROTO_VER,
                         <<0, 0, 0, 3, 0, 0, 0, 0, 0, 0, 0, 0>>, TRUE).msg
      m5 == msgb_avp_put(m4, VENDOR_IETF, AVP_IETF_HOST_NAME, <<66, 83, 67>>, FALSE).msg
      m6 == msgb_avp_put_u32(m5, VENDOR_IETF, AVP_IETF_ROUTER_ID, 9026, FALSE).msg
  IN  msgb_avp_put_u16(m6, VENDOR_IETF, AVP_IETF_PW_CAP_LIST, 6, TRUE).msg

BuildTcRq ==
  LET m1 == msgb_avp_put_msgt(l2tp_msgb_alloc, VENDOR_ERICSSON, ERIC_CTRLMSG_TCRQ).msg
      m2 == msgb_avp_put_digest(m1).msg
  IN  msgb_avp_put(m2, VENDOR_ERICSSON, AVP_ERIC_TRANSP_CFG,
                   <<0, 25, 1, 31, 5, 0, 10, 11, 12, 62, 10, 251, 134, 1, 0, 1, 5, 5, 185>>,
                   TRUE).msg

BuildAltcRq ==
  LET m1 == msgb_avp_put_msgt(l2tp_msgb_alloc, VENDOR_ERICSSON, ERIC_CTRLMSG_ALTCRQ).msg
      m2 == msgb_avp_put_digest(m1).msg
  IN  msgb_avp_put(m2, VENDOR_ERICSSON, AVP_ERIC_TEI_TO_SC_MAP,
                   <<2, 0, 0, 0, 62, 62, 0>>, TRUE).msg

BuildTcRp(ls) ==
  LET m1 == msgb_avp_put_msgt(l2tp_msgb_alloc, VENDOR_IETF, IETF_CTRLMSG_ICRP).msg
      m2 == msgb_avp_put_digest(m1).msg
      m3 == msgb_avp_put_u32(m2, VENDOR_IETF, AVP_IETF_LOC_SESS_ID, ls.l_sess_id, TRUE).msg
      m4 == msgb_avp_put_u32(m3, VENDOR_IETF, AVP_IETF_REM_SESS_ID, ls.r_sess_id, TRUE).msg
      m5 == msgb_avp_put_u16(m4, VENDOR_IETF, AVP_IETF_CIRC_STATUS, 1, TRUE).msg
      m6 == msgb_avp_put_u16(m5, VENDOR_IETF, AVP_IETF_L2_SPEC_SUBL, 1, TRUE).msg
  IN  msgb_avp_put_u16(m6, VENDOR_IETF, AVP_IETF_DATA_SEQUENCING, 2, TRUE).msg

BuildAck ==
  LET m1 == msgb_avp_put_msgt(l2tp_msgb_alloc, VENDOR_IETF, IETF_CTRLMSG_ACK).msg
  IN  msgb_avp_put_digest(m1).msg

BuildHello ==
  LET m1 == msgb_avp_put_msgt(l2tp_msgb_alloc, VENDOR_IETF, IETF_CTRLMSG_HELLO).msg
  IN  msgb_avp_put_digest(m1).msg

(***************************************************************************)
(* Reception.                                                              *)
(***************************************************************************)
\* l2tp_hdr_swap: the header fields in host order.  The swap is done in
\* place: on a little-endian host the bytes of each field are reversed in the
\* message.
HdrFields(m, ch, stale) ==
  [ver    |-> Ld16(m, ch, stale),
   length |-> Ld16(m, ch + 2, stale),
   ccid   |-> Ld32(m, ch + 4, stale),
   Ns     |-> Ld16(m, ch + 8, stale),
   Nr     |-> Ld16(m, ch + 10, stale)]

Reverse(bs) == [i \in 1..Len(bs) |-> bs[Len(bs) + 1 - i]]

l2tp_hdr_swap(m, ch, stale, order) ==
  IF order = "BE" THEN m
  ELSE [m EXCEPT !.mem =
          Store(Store(Store(Store(Store(m.mem,
            ch, Reverse(Bytes(m, ch, 2, stale))),
            ch + 2, Reverse(Bytes(m, ch + 2, 2, stale))),
            ch + 4, Reverse(Bytes(m, ch + 4, 4, stale))),
            ch + 8, Reverse(Bytes(m, ch + 8, 2, stale))),
            ch + 10, Reverse(Bytes(m, ch + 10, 2, stale)))]

\* the value of a function that ends without a return statement: whatever the
\* caller finds in the return register
INDETERMINATE == 77

\* the framing-bit test the header checks are meant to make
BitsWrongIntended(ver) ==
  BitAnd(ver, T_BIT + L_BIT + S_BIT) # T_BIT + L_BIT + S_BIT

\* line 384 as C parses it:
\* (ch->ver & T_BIT) | L_BIT | (S_BIT != T_BIT) | L_BIT | S_BIT
BitsWrong(ver) ==
  BitOr(BitOr(BitOr(BitOr(BitAnd(ver, T_BIT), L_BIT), CBool(S_BIT # T_BIT)), L_BIT),
        S_BIT) # 0

\* the receive handlers have empty bodies: they leave the connection objects
\* and the connection table as they are (st = <<conn, connections>>)
rx_scc_rq(st) == st

rx_scc_cn(st) == st

rx_stop_ccn(st) == st

rx_ic_rq(st) == st

rx_ic_cn(st) == st

rx_eri_tcrp(st) == st

rx_eri_altcrp(st) == st

\* l2tp_rcvmsg_control_ietf / _ericsson: the handler chosen and the state
\* after it.  A handler returns no value: rc is INDETERMINATE.
l2tp_rcvmsg_control_ietf(m, ap, st, stale) ==
  LET msg_type == Ld16(m, ap.data, stale)
  IN  IF ap.data_len # 2
        THEN [rc |-> -1, stage |-> "msgt_len", handler |-> "none", st |-> st]
      ELSE CASE msg_type = IETF_CTRLMSG_SCCRQ ->
                  [rc |-> INDETERMINATE, stage |-> "handler", handler |-> "rx_scc_rq",
                   st |-> rx_scc_rq(st)]
             [] msg_type = IETF_CTRLMSG_SCCCN ->
                  [rc |-> INDETERMINATE, stage |-> "handler", handler |-> "rx_scc_cn",
                   st |-> rx_scc_cn(st)]
             [] msg_type = IETF_CTRLMSG_STOPCCN ->
                  [rc |-> INDETERMINATE, stage |-> "handler", handler |-> "rx_stop_ccn",
                   st |-> rx_stop_ccn(st)]
             [] msg_type = IETF_CTRLMSG_ICRQ ->
                  [rc |-> INDETERMINATE, stage |-> "handler", handler |-> "rx_ic_rq",
                   st |-> rx_ic_rq(st)]
             [] msg_type = IETF_CTRLMSG_ICCN ->
                  [rc |-> INDETERMINATE, stage |-> "handler", handler |-> "rx_ic_cn",
                   st |-> rx_ic_cn(st)]
             [] OTHER ->
                  [rc |-> -1, stage |-> "msgt_unknown", handler |-> "none", st |-> st]

l2tp_rcvmsg_control_ericsson(m, ap, st, stale) ==
  LET msg_type == Ld16(m, ap.data, stale)
  IN  IF ap.data_len # 2
        THEN [rc |-> -1, stage |-> "msgt_len", handler |-> "none", st |-> st]
      ELSE CASE msg_type = ERIC_CTRLMSG_TCRP ->
                  [rc |-> INDETERMINATE, stage |-> "handler", handler |-> "rx_eri_tcrp",
                   st |-> rx_eri_tcrp(st)]
             [] msg_type = ERIC_CTRLMSG_ALTCRP ->
                  [rc |-> INDETERMINATE, stage |-> "handler", handler |-> "rx_eri_altcrp",
                   st |-> rx_eri_altcrp(st)]
             [] OTHER ->
                  [rc |-> -1, stage |-> "msgt_unknown", handler |-> "none", st |-> st]

\* l2tp_rcvmsg_control(msg): the header is read at msg->l2h, the first AVP at
\* msgb_avp_parse(msg, sizeof(*ch)).  Falling off the end (no vendor matches)
\* returns INDETERMINATE.
l2tp_rcvmsg_control(m, st, stale, order) ==
  LET ch  == msgb_l2tph(m)
      hdr == HdrFields(m, ch, stale)
      m1  == l2tp_hdr_swap(m, ch, stale, order)
      rej(stage) == [rc |-> -1, stage |-> stage, handler |-> "none", st |-> st,
                     hdr |-> hdr, msg |-> m1]
  IN  IF BitAnd(hdr.ver, VER_MASK) # 3 THEN rej("version")
      ELSE IF BitsWrong(hdr.ver) THEN rej("bits")
      ELSE IF BitAnd(hdr.ver, Z_BITS) # 0 THEN rej("zbits")
      ELSE IF msgb_l2tplen(m1) < hdr.length THEN rej("length")
      ELSE IF hdr.ccid # Zero32 THEN rej("ccid")
      ELSE
        LET p == msgb_avp_parse(m1, CTRL_HDR_LEN, stale, order)
        IN  IF p.rc < 0 THEN rej("avp")
            ELSE
              LET r == IF p.ap.vendor_id = VENDOR_IETF /\ p.ap.type = AVP_IETF_CTRL_MSG
                         THEN l2tp_rcvmsg_control_ietf(m1, p.ap, st, stale)
                       ELSE IF p.ap.vendor_id = VENDOR_ERICSSON
                               /\ p.ap.type = AVP_ERIC_CTRL_MSG
                         THEN l2tp_rcvmsg_control_ericsson(m1, p.ap, st, stale)
                       ELSE [rc |-> INDETERMINATE, stage |-> "no_vendor", handler |-> "none",
                             st |-> st]
              IN  [rc |-> r.rc, stage |-> r.stage, handler |-> r.handler, st |-> r.st,
                   hdr |-> hdr, msg |-> m1]

NoHdr == [ver |-> 0, length |-> 0, ccid |-> Zero32, Ns |-> 0, Nr |-> 0]

\* l2tp_rcvmsg_data: logs the message
l2tp_rcvmsg_data(m, st) ==
  [rc |-> 0, stage |-> "data", handler |-> "none", st |-> st, hdr |-> NoHdr, msg |-> m,
   path |-> "data"]

\* l2tp_rcvmsg(msg, ip_transport): the session ID is read at msg->l2h, and
\* msgb_pull moves msg->data only.  Without IP transport the function falls
\* off its end: rc is INDETERMINATE.
l2tp_rcvmsg(m, ip_transport, st, stale, order) ==
  IF ip_transport
    THEN IF Ld32(m, msgb_l2tph(m), stale) = Zero32
           THEN LET c == l2tp_rcvmsg_control(msgb_pull(m, 4), st, stale, order)
                IN  [rc |-> c.rc, stage |-> c.stage, handler |-> c.handler, st |-> c.st,
                     hdr |-> c.hdr, msg |-> c.msg, path |-> "control"]
         ELSE l2tp_rcvmsg_data(m, st)
  ELSE [rc |-> INDETERMINATE, stage |-> "udp", handler |-> "none", st |-> st, hdr |-> NoHdr,
        msg |-> m, path |-> "udp"]

(***************************************************************************)
(* Inputs of the codec harness.                                            *)
(***************************************************************************)
\* a value of n bytes
NoMsg == [mem |-> <<>>, data |-> 0, len |-> 0, l2h |-> NULL, dst |-> NULL]

Val(n) == [i \in 1..n |-> (7 * i + 1) % 256]

ValLens == {2, 1017, 1018}

VendorTypes == {<<0, 59>>, <<193, 258>>}

Stale == {0, 255}

NoPut == [valid |-> FALSE, rc |-> 0, off |-> 0, vendor_id |-> 0, type |-> 0,
          val |-> <<>>, m_flag |-> FALSE, n |-> 0, abort |-> FALSE, before |-> NoMsg]

NoParse == [valid |-> FALSE, offset |-> 0, rc |-> 0, ap |-> NoAp, reads |-> {},
            value |-> <<>>]

(***************************************************************************)
(* Initial state.                                                          *)
(***************************************************************************)
ConnIds == 1..NumConns

\* the next_tx_seq_nr values connection objects start from
TxStart == {0, 65534}

NoTx == [valid |-> FALSE, builder |-> "", in |-> NoMsg, msg |-> NoMsg, hdr |-> 0,
         dst |-> NULL, digest_rc |-> 0]

NoDg == [valid |-> FALSE, name |-> "", in |-> NoMsg, msg |-> NoMsg, rc |-> 0]

NoRx == [valid |-> FALSE, entry |-> "", name |-> "", ip |-> FALSE, in |-> NoMsg,
         msg |-> NoMsg, path |-> "", stage |-> "", handler |-> "none", rc |-> 0,
         hdr |-> NoHdr]

\* li->connections is empty after l2tpd_instance_start, and no code adds to
\* it.  The connection objects conn are the struct l2tpd_connection values
\* that msg->dst can point to when l2tp_msgb_tx or l2tp_rcvmsg is called.
Init ==
  /\ host \in {"LE", "BE"}
  /\ buf = l2tp_msgb_alloc
  /\ put = NoPut
  /\ parsed = NoParse
  /\ \E t \in [ConnIds -> TxStart] :
       conn = [c \in ConnIds |-> [local_ccid |-> 0,
                                  remote_ccid |-> 4660 + c,
                                  next_tx_seq_nr |-> t[c],
                                  next_rx_seq_nr |-> 3 * c,
                                  fsm |-> "NULL",
                                  sessions |-> <<>>]]
  /\ connections = <<>>
  /\ tx = NoTx
  /\ dg = NoDg
  /\ rx = NoRx
  /\ ntx = 0
  /\ crashed = FALSE

codecVars == <<buf, put, parsed>>

(***************************************************************************)
(* Actions of the engine: transmission.                                    *)
(***************************************************************************)
\* the low 16 bits a tail address can have
Addrs == {3, 23140}

\* where a caller of l2tp_msgb_tx can have left msg->l2h: unset, at msg->data
\* (the first AVP), or where the control header is going to be
L2hOf(m, sel) ==
  CASE sel = "null" -> NULL
    [] sel = "data" -> m.data
    [] sel = "hdr"  -> m.data - CTRL_HDR_LEN

DoTx(builder, m, addr, stale) ==
  /\ ~crashed
  /\ ntx < MaxTx
  /\ \E r \in {l2tp_msgb_tx(m, conn, addr, stale)} :
         /\ tx' = [valid |-> TRUE, builder |-> builder, in |-> m, msg |-> r.msg,
                   hdr |-> r.hdr, dst |-> m.dst, digest_rc |-> r.digest_rc]
         /\ conn' = r.conn
         /\ crashed' = r.crash
  /\ ntx' = ntx + 1
  /\ dg' = NoDg
  /\ rx' = NoRx
  /\ UNCHANGED <<host, connections, codecVars>>

\* l2tp_msgb_tx called on a message a caller prepared
L2tpMsgbTx(payload, dst, sel, addr, stale) ==
  DoTx("caller", [payload EXCEPT !.dst = dst, !.l2h = L2hOf(payload, sel)], addr, stale)

TxSccRp(ccid, addr, stale) == DoTx("tx_scc_rp", BuildSccRp(ccid), addr, stale)

TxTcRq(addr, stale) == DoTx("tx_tc_rq", BuildTcRq, addr, stale)

TxAltcRq(addr, stale) == DoTx("tx_altc_rq", BuildAltcRq, addr, stale)

TxTcRp(ls, addr, stale) == DoTx("tx_tc_rp", BuildTcRp(ls), addr, stale)

TxAck(addr, stale) == DoTx("tx_ack", BuildAck, addr, stale)

TxHello(addr, stale) == DoTx("tx_hello", BuildHello, addr, stale)

\* the session objects tx_tc_rp is called with
Sessions == {[l_sess_id |-> 1, r_sess_id |-> 5]}

\* the messages a caller hands to l2tp_msgb_tx: built ones, and one without AVPs
TxPayloads == {BuildAck, BuildSccRp(1), l2tp_msgb_alloc}

\* a builder's message has msg->dst unset, so l2tp_msgb_tx stops at line 183
\* before it reads any byte of the message: stale is immaterial there
NextTx ==
  \/ \E payload \in TxPayloads, dst \in ConnIds \cup {NULL},
        sel \in {"null", "data", "hdr"}, stale \in Stale :
       \E addr \in (IF sel = "null" THEN Addrs ELSE {0}) :
         L2tpMsgbTx(payload, dst, sel, addr, stale)
  \/ \E ccid \in {1}, addr \in Addrs : TxSccRp(ccid, addr, 0)
  \/ \E addr \in Addrs : TxTcRq(addr, 0)
  \/ \E addr \in Addrs : TxAltcRq(addr, 0)
  \/ \E ls \in Sessions, addr \in Addrs : TxTcRp(ls, addr, 0)
  \/ \E addr \in Addrs : TxAck(addr, 0)
  \/ \E addr \in Addrs : TxHello(addr, 0)

(***************************************************************************)
(* Inputs of the engine: control messages as a peer serializes them        *)
(* (wire format: 12-byte header, AVPs of 6 + n bytes, big-endian).         *)
(***************************************************************************)
PeerAvp(m_flag, vendor, type, val) ==
  BE16((IF m_flag THEN 32768 ELSE 0) + 6 + Len(val)) \o BE16(vendor) \o BE16(type) \o val

PeerMsgt(vendor, type, msg_type) == PeerAvp(TRUE, vendor, type, BE16(msg_type))

PeerDigest == PeerAvp(TRUE, VENDOR_IETF, AVP_IETF_MSG_DIGEST, Zeros(17))

PeerFiller(n) == PeerAvp(FALSE, VENDOR_IETF, AVP_IETF_HOST_NAME, Val(n))

\* header with the length field off by dlen
PeerCtrl(ver, dlen, ccid, ns, avps) ==
  BE16(ver) \o BE16(CTRL_HDR_LEN + Len(avps) + dlen) \o BE32(ccid) \o BE16(ns)
  \o BE16(0) \o avps

\* where the 16 MAC bytes are when the digest AVP is the second AVP:
\* header, 8-byte message-type AVP, AVP header, digest-type octet
MacPos == CTRL_HDR_LEN + 8 + AVP_HDR_LEN + 1

\* the MAC over the message with the MAC field zeroed
PeerMac(ctrl) == HMAC(digest_key, Store(ctrl, MacPos, Zeros(16)))

PeerSign(ctrl) == Store(ctrl, MacPos, PeerMac(ctrl))

GoodVer == T_BIT + L_BIT + S_BIT + 3

\* a signed control message of one message type
PeerMsg(vendor, type, msg_type, ns) ==
  PeerSign(PeerCtrl(GoodVer, 0, 0, ns,
                    PeerMsgt(vendor, type, msg_type) \o PeerDigest \o PeerFiller(3)))

\* a signed SCCRQ whose byte 72 starts one more message-type AVP
PeerShifted ==
  PeerSign(PeerCtrl(GoodVer, 0, 0, 0,
                    PeerMsgt(VENDOR_IETF, AVP_IETF_CTRL_MSG, IETF_CTRLMSG_SCCRQ)
                    \o PeerDigest \o PeerFiller(23)
                    \o PeerMsgt(VENDOR_IETF, AVP_IETF_CTRL_MSG, IETF_CTRLMSG_SCCRQ)
                    \o PeerFiller(3)))

\* AVPs whose first is a message-type AVP with value first and whose byte 60
\* (byte 72 of the message) starts an SCCRQ message-type AVP
ShiftedAvps(first) ==
  PeerMsgt(VENDOR_IETF, AVP_IETF_CTRL_MSG, first) \o PeerDigest \o PeerFiller(23)
  \o PeerMsgt(VENDOR_IETF, AVP_IETF_CTRL_MSG, IETF_CTRLMSG_SCCRQ) \o PeerFiller(3)

Sccrq == PeerMsgt(VENDOR_IETF, AVP_IETF_CTRL_MSG, IETF_CTRLMSG_SCCRQ)

\* the control messages received, by name
RxCtrl(name) ==
  CASE name = "sccrq" ->
         PeerMsg(VENDOR_IETF, AVP_IETF_CTRL_MSG, IETF_CTRLMSG_SCCRQ, 0)
    [] name = "sccrq_ns5" ->
         PeerMsg(VENDOR_IETF, AVP_IETF_CTRL_MSG, IETF_CTRLMSG_SCCRQ, 5)
    [] name = "scccn" ->
         PeerMsg(VENDOR_IETF, AVP_IETF_CTRL_MSG, IETF_CTRLMSG_SCCCN, 1)
    [] name = "stopccn" ->
         PeerMsg(VENDOR_IETF, AVP_IETF_CTRL_MSG, IETF_CTRLMSG_STOPCCN, 2)
    [] name = "icrq" ->
         PeerMsg(VENDOR_IETF, AVP_IETF_CTRL_MSG, IETF_CTRLMSG_ICRQ, 2)
    [] name = "iccn" ->
         PeerMsg(VENDOR_IETF, AVP_IETF_CTRL_MSG, IETF_CTRLMSG_ICCN, 3)
    [] name = "tcrp" ->
         PeerMsg(VENDOR_ERICSSON, AVP_ERIC_CTRL_MSG, ERIC_CTRLMSG_TCRP, 2)
    [] name = "altcrp" ->
         PeerMsg(VENDOR_ERICSSON, AVP_ERIC_CTRL_MSG, ERIC_CTRLMSG_ALTCRP, 3)
    [] name = "hello" ->
         PeerMsg(VENDOR_IETF, AVP_IETF_CTRL_MSG, IETF_CTRLMSG_HELLO, 4)
    [] name = "badver" ->
         PeerSign(PeerCtrl(T_BIT + L_BIT + S_BIT + 2, 0, 0, 0,
           Sccrq \o PeerDigest \o PeerFiller(3)))
    [] name = "no_t" ->
         PeerSign(PeerCtrl(L_BIT + S_BIT + 3, 0, 0, 0,
           Sccrq \o PeerDigest \o PeerFiller(3)))
    [] name = "zbit" ->
         PeerSign(PeerCtrl(GoodVer + 16, 0, 0, 0,
           Sccrq \o PeerDigest \o PeerFiller(3)))
    [] name = "longlen" ->
         PeerSign(PeerCtrl(GoodVer, 4, 0, 0,
           Sccrq \o PeerDigest \o PeerFiller(3)))
    [] name = "ccid1" ->
         PeerSign(PeerCtrl(GoodVer, 0, 1, 0,
           Sccrq \o PeerDigest \o PeerFiller(3)))
    [] name = "badmac" ->
         PeerCtrl(GoodVer, 0, 0, 0, Sccrq \o PeerDigest \o PeerFiller(3))
    [] name = "nodigest" ->
         PeerCtrl(GoodVer, 0, 0, 0, Sccrq \o PeerFiller(3))
    [] name = "msgt3" ->
         PeerCtrl(GoodVer, 0, 0, 0,
           PeerAvp(TRUE, VENDOR_IETF, AVP_IETF_CTRL_MSG, <<0, 0, 1>>)
           \o PeerFiller(3))
    [] name = "otheravp" ->
         PeerCtrl(GoodVer, 0, 0, 0, PeerFiller(3) \o PeerFiller(3))
    [] name = "truncavp" ->
         PeerCtrl(GoodVer, 0, 0, 0, <<128, 40, 0, 0, 0, 0, 0, 1>>)
    [] name = "short" ->
         <<200, 3>>
    [] name = "shifted" ->
         PeerShifted
    [] name = "shifted_badmac" ->
         Store(PeerShifted, MacPos, Zeros(16))
    [] name = "shifted_unknown" ->
         PeerSign(PeerCtrl(GoodVer, 0, 0, 0, ShiftedAvps(99)))
    [] name = "shifted_shortlen" ->
         PeerCtrl(GoodVer, 4 - Len(ShiftedAvps(IETF_CTRLMSG_SCCRQ)), 0, 0,
                  ShiftedAvps(IETF_CTRLMSG_SCCRQ))

RxNames == {"sccrq", "sccrq_ns5", "scccn", "stopccn", "icrq", "iccn", "tcrp", "altcrp",
            "hello", "badver", "no_t", "zbit", "longlen", "ccid1", "badmac", "nodigest",
            "msgt3", "otheravp", "truncavp", "short", "shifted", "shifted_badmac",
            "shifted_unknown", "shifted_shortlen"}

\* a received message as l2tp_ip_read_cb hands it on: msg->l2h = msg->data at
\* the first received byte
RxMsgb(bytes, dst) ==
  [mem |-> Zeros(HEADROOM) \o bytes, data |-> HEADROOM, len |-> Len(bytes),
   l2h |-> HEADROOM, dst |-> dst]

\* the datagram of a control message: session ID 0, then the message
Datagram(session, bytes) == BE32(session) \o bytes

(***************************************************************************)
(* Actions of the engine: reception.                                       *)
(***************************************************************************)
\* the values an indeterminate int return value is observed with
Undef == {-1, 0}

DoRx(entry, name, ip, m, r) ==
  /\ ~crashed
  /\ \E rc \in (IF r.rc = INDETERMINATE THEN Undef ELSE {r.rc}) :
       rx' = [valid |-> TRUE, entry |-> entry, name |-> name, ip |-> ip, in |-> m,
              msg |-> r.msg, path |-> r.path, stage |-> r.stage, handler |-> r.handler,
              rc |-> rc, hdr |-> r.hdr]
  /\ conn' = r.st[1]
  /\ connections' = r.st[2]
  /\ tx' = NoTx
  /\ dg' = NoDg
  /\ UNCHANGED <<host, ntx, crashed, codecVars>>

\* l2tp_rcvmsg on the datagram of the control message called name
L2tpRcvmsgControlDatagram(name, dst, stale) ==
  \E m \in {RxMsgb(Datagram(0, RxCtrl(name)), dst)} :
      \E r \in {l2tp_rcvmsg(m, TRUE, <<conn, connections>>, stale, host)} :
        DoRx("l2tp_rcvmsg", name, TRUE, m, r)

\* l2tp_rcvmsg on a datagram with a nonzero session ID
L2tpRcvmsgDataDatagram(session, name, dst, stale) ==
  \E m \in {RxMsgb(Datagram(session, RxCtrl(name)), dst)} :
      \E r \in {l2tp_rcvmsg(m, TRUE, <<conn, connections>>, stale, host)} :
        DoRx("l2tp_rcvmsg", name, TRUE, m, r)

\* l2tp_rcvmsg without IP transport
L2tpRcvmsgUdp(name, dst, stale) ==
  \E m \in {RxMsgb(Datagram(0, RxCtrl(name)), dst)} :
      \E r \in {l2tp_rcvmsg(m, FALSE, <<conn, connections>>, stale, host)} :
        DoRx("l2tp_rcvmsg", name, FALSE, m, r)

\* l2tp_rcvmsg_control on a message whose msg->l2h = msg->data is at the
\* control header
L2tpRcvmsgControl(name, dst, stale) ==
  \E m \in {RxMsgb(RxCtrl(name), dst)} :
      \E c \in {l2tp_rcvmsg_control(m, <<conn, connections>>, stale, host)} :
        DoRx("l2tp_rcvmsg_control", name, TRUE, m,
             [rc |-> c.rc, stage |-> c.stage, handler |-> c.handler, st |-> c.st,
              hdr |-> c.hdr, msg |-> c.msg, path |-> "control"])

NextRx ==
  \/ \E name \in RxNames, dst \in ConnIds, stale \in Stale :
       L2tpRcvmsgControlDatagram(name, dst, stale)
  \/ \E session \in {5}, name \in {"sccrq", "short"}, dst \in ConnIds,
        stale \in Stale :
       L2tpRcvmsgDataDatagram(session, name, dst, stale)
  \/ \E name \in {"sccrq"}, dst \in ConnIds, stale \in Stale :
       L2tpRcvmsgUdp(name, dst, stale)
  \/ \E name \in RxNames, dst \in ConnIds, stale \in Stale :
       L2tpRcvmsgControl(name, dst, stale)

(***************************************************************************)
(* Actions of the engine: the digest engine on its own.                    *)
(***************************************************************************)
\* complete control messages digest_avp_update is applied to, by name
DgCtrl(name) ==
  CASE name = "ack" ->
         PeerCtrl(GoodVer, 0, 4661, 0,
                  PeerMsgt(VENDOR_IETF, AVP_IETF_CTRL_MSG, IETF_CTRLMSG_ACK) \o PeerDigest)
    [] name = "ack_longlen" ->
         PeerCtrl(GoodVer, 2, 4661, 0,
                  PeerMsgt(VENDOR_IETF, AVP_IETF_CTRL_MSG, IETF_CTRLMSG_ACK) \o PeerDigest)
    [] name = "msgt_only" ->
         PeerCtrl(GoodVer, 0, 4661, 0,
                  PeerMsgt(VENDOR_IETF, AVP_IETF_CTRL_MSG, IETF_CTRLMSG_ACK))
    [] name = "digest17_first" ->
         PeerCtrl(GoodVer, 0, 4661, 0, PeerDigest)
    [] name = "digest16_first" ->
         PeerCtrl(GoodVer, 0, 4661, 0,
                  PeerAvp(TRUE, VENDOR_IETF, AVP_IETF_MSG_DIGEST, Zeros(16)) \o PeerFiller(3))
    [] name = "digest16_longlen" ->
         PeerCtrl(GoodVer, 2, 4661, 0,
                  PeerAvp(TRUE, VENDOR_IETF, AVP_IETF_MSG_DIGEST, Zeros(16)) \o PeerFiller(3))

DgNames == {"ack", "ack_longlen", "msgt_only", "digest17_first", "digest16_first",
            "digest16_longlen"}

\* digest_avp_update on a complete control message with msg->l2h at its header
DigestAvpUpdate(name, stale) ==
  /\ ~crashed
  /\ \E m \in {RxMsgb(DgCtrl(name), NULL)} :
       \E r \in {digest_avp_update(m, stale)} :
         /\ dg' = [valid |-> TRUE, name |-> name, in |-> m, msg |-> r.msg, rc |-> r.rc]
         /\ crashed' = r.crash
  /\ tx' = NoTx
  /\ rx' = NoRx
  /\ UNCHANGED <<host, conn, connections, ntx, codecVars>>

NextDigest == \E name \in DgNames, stale \in Stale : DigestAvpUpdate(name, stale)

(***************************************************************************)
(* Actions of the codec harness.                                           *)
(***************************************************************************)
\* one call of msgb_avp_put on the buffer
AvpPut(vt, n, m_flag) ==
  /\ ~crashed
  /\ put.n < MaxPuts
  /\ LET r == msgb_avp_put(buf, vt[1], vt[2], Val(n), m_flag)
     IN  /\ buf' = r.msg
         /\ put' = [valid |-> TRUE, rc |-> r.rc, off |-> msgb_length(buf),
                    vendor_id |-> vt[1], type |-> vt[2], val |-> Val(n),
                    m_flag |-> m_flag, n |-> put.n + 1, abort |-> r.abort,
                    before |-> buf]
         /\ crashed' = r.abort
  /\ parsed' = NoParse
  /\ UNCHANGED <<host, conn, connections, tx, dg, rx, ntx>>

\* one call of msgb_avp_parse on the buffer
AvpParse(offset, stale) ==
  /\ ~crashed
  /\ put.valid
  /\ ~parsed.valid
  /\ LET r == msgb_avp_parse(buf, offset, stale, host)
     IN  parsed' = [valid |-> TRUE, offset |-> offset, rc |-> r.rc, ap |-> r.ap,
                    reads |-> r.reads,
                    value |-> IF r.rc >= 0 THEN ApValue(buf, r.ap, stale) ELSE <<>>]
  /\ UNCHANGED <<host, buf, put, conn, connections, tx, dg, rx, ntx, crashed>>

ParseOffsets == {0, 1, 2}

NextCodec ==
  \/ \E vt \in VendorTypes, n \in ValLens, m_flag \in BOOLEAN : AvpPut(vt, n, m_flag)
  \/ \E offset \in ParseOffsets \cup {put.off, msgb_length(buf), msgb_length(buf) + 1},
        stale \in Stale : AvpParse(offset, stale)

\* the codec harness and the receive side do not read the transmit counters
InitSeq0 == Init /\ \A c \in ConnIds : conn[c].next_tx_seq_nr = 0

SpecCodec == InitSeq0 /\ [][NextCodec]_vars

NextEngineTx == NextTx \/ NextDigest

SpecTx == Init /\ [][NextEngineTx]_vars

SpecRx == InitSeq0 /\ [][NextRx]_vars

(***************************************************************************)
(* The receive handlers on their own: each handler applied to an instance  *)
(* whose connection table and connection objects are as a caller can hand  *)
(* them over.                                                              *)
(***************************************************************************)
ConnStates == {"WAIT_CONN_CONFIRM", "ESTABLISHED"}

\* the connection tables: li->connections as a list of connection objects
Tables == {<<>>, <<1, 2>>} \cup {<<c>> : c \in ConnIds}

\* the session lists of a connection
SessionLists == {<<>>, <<[l_sess_id |-> 1, r_sess_id |-> 5, fsm |-> "ESTABLISHED"]>>}

InTable(c, table) == \E i \in 1..Len(table) : table[i] = c

InitHandlers ==
  /\ host \in {"LE", "BE"}
  /\ buf = l2tp_msgb_alloc
  /\ put = NoPut
  /\ parsed = NoParse
  /\ connections \in Tables
  /\ \E f \in [ConnIds -> ConnStates], ss \in [ConnIds -> SessionLists] :
       conn = [c \in ConnIds |-> [local_ccid |-> c,
                                  remote_ccid |-> 4660 + c,
                                  next_tx_seq_nr |-> 0,
                                  next_rx_seq_nr |-> 3 * c,
                                  fsm |-> f[c],
                                  sessions |-> ss[c]]]
  /\ tx = NoTx
  /\ dg = NoDg
  /\ rx = NoRx
  /\ ntx = 0
  /\ crashed = FALSE

\* the first call of a handler, on the message called name for connection c;
\* a handler returns no value
DoHandler(entry, name, c, st) ==
  /\ ~crashed
  /\ ~rx.valid
  /\ \E m \in {RxMsgb(RxCtrl(name), c)}, rc \in Undef :
       rx' = [NoRx EXCEPT !.valid = TRUE, !.entry = entry, !.name = name,
                          !.in = m, !.msg = m,
                          !.path = "control", !.stage = "handler", !.handler = entry,
                          !.rc = rc]
  /\ conn' = st[1]
  /\ connections' = st[2]
  /\ tx' = NoTx
  /\ dg' = NoDg
  /\ UNCHANGED <<host, ntx, crashed, codecVars>>

RxSccRq(c) == DoHandler("rx_scc_rq", "sccrq", c, rx_scc_rq(<<conn, connections>>))

RxSccCn(c) == DoHandler("rx_scc_cn", "scccn", c, rx_scc_cn(<<conn, connections>>))

RxStopCcn(c) == DoHandler("rx_stop_ccn", "stopccn", c, rx_stop_ccn(<<conn, connections>>))

RxIcRq(c) == DoHandler("rx_ic_rq", "icrq", c, rx_ic_rq(<<conn, connections>>))

RxIcCn(c) == DoHandler("rx_ic_cn", "iccn", c, rx_ic_cn(<<conn, connections>>))

RxEriTcrp(c) == DoHandler("rx_eri_tcrp", "tcrp", c, rx_eri_tcrp(<<conn, connections>>))

RxEriAltcrp(c) == DoHandler("rx_eri_altcrp", "altcrp", c, rx_eri_altcrp(<<conn, connections>>))

NextHandlers ==
  \E c \in ConnIds :
    \/ RxSccRq(c)
    \/ RxSccCn(c)
    \/ RxStopCcn(c)
    \/ RxIcRq(c)
    \/ RxIcCn(c)
    \/ RxEriTcrp(c)
    \/ RxEriAltcrp(c)

SpecHandlers == InitHandlers /\ [][NextHandlers]_vars

(***************************************************************************)
(* Reference readings of the wire format, used to state the properties.    *)
(***************************************************************************)
\* where the control message starts in a received message: after the session
\* ID for l2tp_rcvmsg, at msg->l2h for l2tp_rcvmsg_control
CtrlStart(r) == r.in.l2h + (IF r.entry = "l2tp_rcvmsg" THEN 4 ELSE 0)

Avail(m, cs) == Len(m.mem) - cs

\* the AVP at byte position pos lies inside the message
WireAvpOk(m, pos) ==
  /\ pos + AVP_HDR_LEN <= Len(m.mem)
  /\ Ld16(m, pos, 0) % 1024 >= AVP_HDR_LEN
  /\ pos + (Ld16(m, pos, 0) % 1024) <= Len(m.mem)

\* the control message at cs fails one of the header checks
HeaderInvalid(m, cs) ==
  LET h == HdrFields(m, cs, 0)
  IN  \/ Avail(m, cs) < CTRL_HDR_LEN
      \/ BitAnd(h.ver, VER_MASK) # 3
      \/ BitAnd(h.ver, T_BIT + L_BIT + S_BIT) # T_BIT + L_BIT + S_BIT
      \/ BitAnd(h.ver, Z_BITS) # 0
      \/ h.length > Avail(m, cs)
      \/ h.ccid # Zero32
      \/ ~WireAvpOk(m, cs + CTRL_HDR_LEN)

\* the second AVP of the control message at cs is an IETF Message-Digest AVP
\* with a 17-byte value, right after an 8-byte first AVP
SecondAvpIsDigest17(m, cs) ==
  LET first  == cs + CTRL_HDR_LEN
      second == first + 8
  IN  /\ WireAvpOk(m, first)
      /\ Ld16(m, first, 0) % 1024 = 8
      /\ WireAvpOk(m, second)
      /\ Ld16(m, second, 0) % 1024 = AVP_HDR_LEN + 17
      /\ Ld16(m, second + 2, 0) = VENDOR_IETF
      /\ Ld16(m, second + 4, 0) = AVP_IETF_MSG_DIGEST

\* the bytes of the control message at cs: its declared length, or what is
\* there when it declares more
CtrlBytes(m, cs) ==
  LET n == IF Ld16(m, cs + 2, 0) <= Avail(m, cs) THEN Ld16(m, cs + 2, 0) ELSE Avail(m, cs)
  IN  SubSeq(m.mem, cs + 1, cs + n)

\* the MAC of the control message at cs equals the digest recomputed over the
\* message with the MAC field zeroed
DigestOk(m, cs) ==
  /\ Avail(m, cs) >= CTRL_HDR_LEN
  /\ SecondAvpIsDigest17(m, cs)
  /\ SubSeq(m.mem, cs + MacPos + 1, cs + MacPos + 16) = PeerMac(CtrlBytes(m, cs))

RejectStages == {"version", "bits", "zbits", "length", "ccid", "avp"}

(***************************************************************************)
(* Properties.                                                             *)
(***************************************************************************)

\* C1: AVP round trip.  After msgb_avp_put has appended an AVP, msgb_avp_parse
\* at the offset where that AVP starts succeeds, returns the offset of the
\* first byte after the AVP, and yields the vendor ID, type, value length and
\* value bytes that were put, m equal to the mandatory flag and h = 0.
C1_AvpRoundTrip ==
  (put.valid /\ put.rc >= 0 /\ parsed.valid /\ parsed.offset = put.off)
    => /\ parsed.rc = put.off + AVP_HDR_LEN + Len(put.val)
       /\ parsed.ap.vendor_id = put.vendor_id
       /\ parsed.ap.type = put.type
       /\ parsed.ap.data_len = Len(put.val)
       /\ parsed.value = put.val
       /\ parsed.ap.m = CBool(put.m_flag)
       /\ parsed.ap.h = 0

\* C2: AVP parse stays inside the buffer.  Every byte msgb_avp_parse reads, and
\* every value byte it exposes on success, is at a position p of the
\* message with offset <= p < buffer length.
C2_ParseInsideBuffer ==
  parsed.valid
    => \A p \in parsed.reads
               \cup (IF parsed.rc >= 0
                       THEN parsed.ap.data .. (parsed.ap.data + parsed.ap.data_len - 1)
                     ELSE {}) :
         /\ p >= buf.data + parsed.offset
         /\ p < buf.data + msgb_length(buf)

\* C3: control header validation.  l2tp_rcvmsg_control rejects a control
\* message exactly when its version is not 3, or T, L, S are not all set, or
\* a reserved bit is set, or its length exceeds the bytes available, or its
\* CCID is not 0, or its first AVP does not parse; a valid header goes on to
\* message-type dispatch.
C3_HeaderValidation ==
  (rx.valid /\ rx.entry = "l2tp_rcvmsg_control")
    => ((rx.stage \in RejectStages) <=> HeaderInvalid(rx.in, CtrlStart(rx)))

\* C4: inbound demultiplexing.  With IP transport, a datagram whose leading
\* session ID is 0 has the 4 bytes stripped and its control header parsed from
\* the bytes that follow the session ID; a datagram with a nonzero session ID
\* goes to the data path unmodified and reaches no control handler.
C4_Demultiplex ==
  (rx.valid /\ rx.entry = "l2tp_rcvmsg" /\ rx.ip)
    => IF Ld32(rx.in, rx.in.l2h, 0) = Zero32
         THEN /\ rx.path = "control"
              /\ rx.msg.data = rx.in.data + 4
              /\ (Avail(rx.in, CtrlStart(rx)) >= CTRL_HDR_LEN
                    => rx.hdr = HdrFields(rx.in, CtrlStart(rx), 0))
       ELSE /\ rx.path = "data"
            /\ rx.msg = rx.in
            /\ rx.handler = "none"

\* C5: control header serialization.  A message that l2tp_msgb_tx has
\* processed carries a 12-byte header with version 3, T, L and S set, the
\* reserved bits zero, the length field equal to the length of header plus
\* AVPs, and the CCID equal to the connection's remote CCID.
C5_TxHeader ==
  (tx.valid /\ ~crashed)
    => LET h == HdrFields(tx.msg, tx.hdr, 0)
       IN  /\ BitAnd(h.ver, VER_MASK) = 3
           /\ BitAnd(h.ver, T_BIT + L_BIT + S_BIT) = T_BIT + L_BIT + S_BIT
           /\ BitAnd(h.ver, Z_BITS) = 0
           /\ h.length = Len(tx.msg.mem) - tx.hdr
           /\ h.ccid = <<conn[tx.dst].remote_ccid \div 65536,
                         conn[tx.dst].remote_ccid % 65536>>

\* C6: the digest is located at the second AVP.  digest_avp_update succeeds
\* exactly when the second AVP, right after the 8-byte Message-Type AVP, is
\* an IETF Message-Digest AVP with a 17-byte value; and every message of the
\* engine's builders leaves l2tp_msgb_tx signed, its MAC not the all-zero
\* placeholder.
C6_DigestSecondAvp ==
  /\ dg.valid => ((dg.rc = 0) <=> SecondAvpIsDigest17(dg.in, dg.in.l2h))
  /\ (tx.valid /\ tx.builder # "caller")
       => /\ ~crashed
          /\ tx.digest_rc = 0
          /\ Bytes(tx.msg, tx.hdr + MacPos, 16, 0) # Zeros(16)

\* C7: authentication on receive.  A received control message whose
\* Message-Digest AVP is missing from the second position, or whose MAC is
\* not the digest recomputed over the message with the MAC field zeroed, is
\* routed to no handler and changes no connection object and not the
\* connection table.
C7_BadDigestDiscarded ==
  [][(rx' # rx /\ rx'.valid /\ rx'.path = "control"
        /\ ~DigestOk(rx'.in, CtrlStart(rx')))
       => (rx'.handler = "none" /\ conn' = conn /\ connections' = connections)]_vars

\* a control message that is valid but for its MAC has been received and
\* rejected
C7_Witness ==
  /\ rx.valid
  /\ rx.name = "badmac"
  /\ rx.entry = "l2tp_rcvmsg_control"
  /\ ~HeaderInvalid(rx.in, CtrlStart(rx))
  /\ ~DigestOk(rx.in, CtrlStart(rx))
  /\ rx.rc = -1
  /\ rx.handler = "none"

\* a received control message is valid: header, first AVP and digest
ValidCtrl(r) ==
  /\ r.path = "control"
  /\ ~HeaderInvalid(r.in, CtrlStart(r))
  /\ DigestOk(r.in, CtrlStart(r))

\* C8: receive sequence.  Processing a valid control message whose Ns is the
\* connection's next_rx_seq_nr or later sets next_rx_seq_nr to Ns + 1 modulo
\* 2^16; a message whose Ns was seen before leaves next_rx_seq_nr and the
\* connection objects unchanged.
C8_RxSequence ==
  [][(rx' # rx /\ rx'.valid /\ ValidCtrl(rx'))
       => LET c  == rx'.in.dst
              Ns == Ld16(rx'.in, CtrlStart(rx') + 8, 0)
          IN  IF Ns >= conn[c].next_rx_seq_nr
                THEN conn'[c].next_rx_seq_nr = U16(Ns + 1)
              ELSE conn' = conn]_vars

\* C9: transmit sequencing.  A call of l2tp_msgb_tx on a connection writes
\* Ns = the connection's next_tx_seq_nr before the call and Nr = its
\* next_rx_seq_nr, sets next_tx_seq_nr to the old value plus one modulo 2^16,
\* and changes neither next_rx_seq_nr nor any other connection; no other step
\* changes a counter.
C9_TxSequencing ==
  [][IF ntx' = ntx + 1 /\ tx'.dst # NULL
       THEN LET c == tx'.dst
            IN  /\ Ld16(tx'.msg, tx'.hdr + 8, 0) = conn[c].next_tx_seq_nr
                /\ Ld16(tx'.msg, tx'.hdr + 10, 0) = conn[c].next_rx_seq_nr
                /\ conn'[c].next_tx_seq_nr = (conn[c].next_tx_seq_nr + 1) % 65536
                /\ conn'[c].next_rx_seq_nr = conn[c].next_rx_seq_nr
                /\ \A o \in ConnIds \ {c} : conn'[o] = conn[o]
     ELSE conn' = conn]_vars

\* a message with Ns = 65535 has been transmitted on a connection whose
\* counter is 0 afterwards
C9_Witness ==
  /\ tx.valid
  /\ tx.dst # NULL
  /\ ~crashed
  /\ Ld16(tx.msg, tx.hdr + 8, 0) = 65535
  /\ conn[tx.dst].next_tx_seq_nr = 0

\* C10: connection handshake.  After a valid SCCRQ has been received, the
\* connection table holds a connection with a local CCID >= 1 in state
\* WAIT_CONN_CONFIRM and an SCCRP has been emitted.
C10_Handshake ==
  (rx.valid /\ ValidCtrl(rx) /\ rx.name = "sccrq")
    => /\ \E i \in 1..Len(connections) :
            /\ conn[connections[i]].local_ccid >= 1
            /\ conn[connections[i]].fsm = "WAIT_CONN_CONFIRM"
       /\ tx.valid
       /\ tx.builder = "tx_scc_rp"

\* C11: session handshake.  After a valid ICRQ has been received for a
\* connection, the connection holds a session with a local session ID >= 1 in
\* state WAIT_CONFIRM and an ICRP has been emitted.
C11_SessionHandshake ==
  (rx.valid /\ ValidCtrl(rx) /\ rx.name = "icrq")
    => /\ \E i \in 1..Len(conn[rx.in.dst].sessions) :
            /\ conn[rx.in.dst].sessions[i].l_sess_id >= 1
            /\ conn[rx.in.dst].sessions[i].fsm = "WAIT_CONFIRM"
       /\ tx.valid
       /\ tx.builder = "tx_tc_rp"

\* C12: teardown.  A StopCCN handled for an ESTABLISHED connection of the
\* connection table destroys the connection's sessions and removes the
\* connection from the table.
C12_Teardown ==
  [][(rx' # rx /\ rx'.valid /\ rx'.entry = "rx_stop_ccn"
        /\ InTable(rx'.in.dst, connections)
        /\ conn[rx'.in.dst].fsm = "ESTABLISHED")
       => /\ ~InTable(rx'.in.dst, connections')
          /\ conn'[rx'.in.dst].sessions = <<>>]_vars

\* the handler the first AVP of the control message at cs selects, "none"
\* when it selects none
RefHandler(m, cs) ==
  LET a      == cs + CTRL_HDR_LEN
      vendor == Ld16(m, a + 2, 0)
      type   == Ld16(m, a + 4, 0)
      v      == Ld16(m, a + 6, 0)
  IN  IF ~WireAvpOk(m, a) \/ Ld16(m, a, 0) % 1024 # 8
        THEN "none"
      ELSE IF vendor = VENDOR_IETF /\ type = AVP_IETF_CTRL_MSG
        THEN CASE v = IETF_CTRLMSG_SCCRQ -> "rx_scc_rq"
               [] v = IETF_CTRLMSG_SCCCN -> "rx_scc_cn"
               [] v = IETF_CTRLMSG_STOPCCN -> "rx_stop_ccn"
               [] v = IETF_CTRLMSG_ICRQ -> "rx_ic_rq"
               [] v = IETF_CTRLMSG_ICCN -> "rx_ic_cn"
               [] OTHER -> "none"
      ELSE IF vendor = VENDOR_ERICSSON /\ type = AVP_ERIC_CTRL_MSG
        THEN CASE v = ERIC_CTRLMSG_TCRP -> "rx_eri_tcrp"
               [] v = ERIC_CTRLMSG_ALTCRP -> "rx_eri_altcrp"
               [] OTHER -> "none"
      ELSE "none"

\* a received control message fails header validation, AVP parsing or
\* message-type dispatch
Malformed(r) ==
  \/ HeaderInvalid(r.in, CtrlStart(r))
  \/ RefHandler(r.in, CtrlStart(r)) = "none"

\* C13: malformed input is dropped without effect.  For a control message
\* that fails header validation, AVP parsing or message-type dispatch the
\* call returns an error and leaves the connection objects (their counters
\* and sessions) and the connection table unchanged; and the connection
\* table grows only on a valid SCCRQ.
C13_MalformedDropped ==
  [][/\ (rx' # rx /\ rx'.valid /\ rx'.path = "control" /\ Malformed(rx'))
          => (rx'.rc = -1 /\ rx'.handler = "none"
              /\ conn' = conn /\ connections' = connections)
     /\ (Len(connections') > Len(connections))
          => (rx'.valid /\ ValidCtrl(rx')
              /\ RefHandler(rx'.in, CtrlStart(rx')) = "rx_scc_rq")]_vars

\* a datagram with a wrong version and a control message with an unknown
\* message type have been received and rejected
C13_Witness ==
  /\ rx.valid
  /\ rx.path = "control"
  /\ \/ rx.name = "badver" /\ rx.entry = "l2tp_rcvmsg"
     \/ rx.name = "shifted_unknown" /\ ~HeaderInvalid(rx.in, CtrlStart(rx))
  /\ Malformed(rx)
  /\ rx.rc = -1

\* the last msgb_avp_put returned an error and appended nothing
PutRejected ==
  /\ ~put.abort
  /\ put.rc = -1
  /\ buf = put.before

\* the last msgb_avp_put returned 6 + value length and appended exactly the
\* AVP: flags/length word, vendor ID, type, value
PutAppended ==
  LET at   == Len(put.before.mem)
      n    == Len(put.val)
      word == Ld16(buf, at, 0)
  IN  /\ ~put.abort
      /\ put.rc = 6 + n
      /\ Len(buf.mem) = at + 6 + n
      /\ msgb_length(buf) = msgb_length(put.before) + 6 + n
      /\ SubSeq(buf.mem, 1, at) = put.before.mem
      /\ buf.data = put.before.data
      /\ word % 1024 = 6 + n
      /\ (BitAnd(word, 32768) # 0) <=> put.m_flag
      /\ BitAnd(word, 16384) = 0
      /\ Ld16(buf, at + 2, 0) = put.vendor_id
      /\ Ld16(buf, at + 4, 0) = put.type
      /\ SubSeq(buf.mem, at + 7, at + 6 + n) = put.val

ZeroMac(m) == [m EXCEPT !.mem = Store(m.mem, m.l2h + MacPos, Zeros(16))]

\* C15: digest idempotence.  After digest_avp_update has signed a message,
\* signing it again with the MAC field re-zeroed gives the same bytes, and
\* verification accepts the signed message: its MAC field equals the digest
\* recomputed over the message with the MAC field zeroed.
C15_DigestIdempotent ==
  (dg.valid /\ dg.rc = 0)
    => /\ digest_avp_update(ZeroMac(dg.msg), 0).rc = 0
       /\ digest_avp_update(ZeroMac(dg.msg), 0).msg = dg.msg
       /\ DigestOk(dg.msg, dg.msg.l2h)

\* the positions of the MAC field of the message: the trailing 16 bytes of the
\* value of the digest AVP in second place
MacField(m) == (m.l2h + MacPos) .. (m.l2h + MacPos + 15)

\* C17: signing changes only the MAC field.  A successful digest_avp_update
\* is one on a message with a 17-byte Message-Digest AVP value and changes
\* bytes of the MAC field only, which then hold the computed MAC; a failing
\* one changes no byte of the message.
C17_SignFrame ==
  dg.valid
    => IF dg.rc = 0
         THEN /\ SecondAvpIsDigest17(dg.in, dg.in.l2h)
              /\ Len(dg.msg.mem) = Len(dg.in.mem)
              /\ \A p \in 1..Len(dg.in.mem) :
                   dg.msg.mem[p] # dg.in.mem[p] => (p - 1) \in MacField(dg.in)
              /\ [dg.msg EXCEPT !.mem = dg.in.mem] = dg.in
       ELSE dg.msg = dg.in

\* C16: msgb_avp_parse agrees with a reference decoder applied at byte
\* position offset of the buffer: it fails when fewer than 6 bytes remain,
\* when the declared length L is below 6 or exceeds the bytes remaining, and
\* otherwise returns offset + L with vendor_id and type from bytes
\* offset+2..offset+5, value length L - 6, value at offset + 6, and m and h
\* equal to bits 15 and 14 of the big-endian flags/length word.
C16_ParseAgreesWithReference ==
  parsed.valid
    => LET pos       == buf.data + parsed.offset
           remaining == msgb_length(buf) - parsed.offset
           word      == Ld16(buf, pos, 0)
           L         == word % 1024
       IN  IF remaining < 6 \/ L < 6 \/ L > remaining
             THEN parsed.rc = -1
           ELSE /\ parsed.rc = parsed.offset + L
                /\ parsed.ap.vendor_id = Ld16(buf, pos + 2, 0)
                /\ parsed.ap.type = Ld16(buf, pos + 4, 0)
                /\ parsed.ap.data_len = L - 6
                /\ parsed.ap.data = pos + 6
                /\ parsed.ap.m = CBool(BitAnd(word, 32768) # 0)
                /\ parsed.ap.h = CBool(BitAnd(word, 16384) # 0)

\* C18: message-type routing.  A control message with a valid header given
\* to l2tp_rcvmsg_control is handed to the handler its first AVP selects, and
\* when the first AVP selects none, no handler is invoked and the call
\* returns an error.
C18_Routing ==
  (rx.valid /\ rx.entry = "l2tp_rcvmsg_control" /\ ~HeaderInvalid(rx.in, CtrlStart(rx)))
    => /\ rx.handler = RefHandler(rx.in, CtrlStart(rx))
       /\ (RefHandler(rx.in, CtrlStart(rx)) = "none" => rx.rc = -1)

\* the first AVP of the control message at cs ends after the end of the
\* message as the length field of the header declares it
FirstAvpOverruns(m, cs) ==
  CTRL_HDR_LEN + (Ld16(m, cs + CTRL_HDR_LEN, 0) % 1024) > Ld16(m, cs + 2, 0)

\* C19: AVPs stay inside the declared control message.  A control message
\* whose first AVP extends beyond the length the header declares is rejected:
\* the call returns an error and no handler is invoked, so no AVP beyond the
\* declared end is accepted.
C19_AvpInsideDeclared ==
  (rx.valid /\ rx.path = "control" /\ FirstAvpOverruns(rx.in, CtrlStart(rx)))
    => (rx.rc = -1 /\ rx.handler = "none")

\* a message whose first AVP lies inside the datagram but beyond the declared
\* length has been given to l2tp_rcvmsg_control and rejected
C19_Witness ==
  /\ rx.valid
  /\ rx.entry = "l2tp_rcvmsg_control"
  /\ rx.name = "shifted_shortlen"
  /\ WireAvpOk(rx.in, CtrlStart(rx) + CTRL_HDR_LEN)
  /\ FirstAvpOverruns(rx.in, CtrlStart(rx))
  /\ rx.hdr.length <= Avail(rx.in, CtrlStart(rx))
  /\ rx.rc = -1

\* the vendor and the message type of the message each builder builds
BuilderMsgt(builder) ==
  CASE builder = "tx_scc_rp" -> <<VENDOR_IETF, IETF_CTRLMSG_SCCRP>>
    [] builder = "tx_tc_rq" -> <<VENDOR_ERICSSON, ERIC_CTRLMSG_TCRQ>>
    [] builder = "tx_altc_rq" -> <<VENDOR_ERICSSON, ERIC_CTRLMSG_ALTCRQ>>
    [] builder = "tx_tc_rp" -> <<VENDOR_IETF, IETF_CTRLMSG_ICRP>>
    [] builder = "tx_ack" -> <<VENDOR_IETF, IETF_CTRLMSG_ACK>>
    [] builder = "tx_hello" -> <<VENDOR_IETF, IETF_CTRLMSG_HELLO>>

====
